---- MODULE Spec2Model ----
(***************************************************************************)
(* Model of the Common Crawl batching pipeline.                            *)
(*                                                                         *)
(*   producer  batcher.py   process_index / publish_batch                  *)
(*             rabbitmq.py  RabbitMQChannel.basic_publish                  *)
(*   consumer  worker.py    Worker.run / Worker.process_batch              *)
(*             ObjectStore.py ObjectStore.save                             *)
(*                                                                         *)
(* Spec       is the producer: one run of process_index over an index      *)
(*            whose ranges the downloader resolves to lines.               *)
(* WorkerSpec is the consumer: the broker queue, the prefetch window and   *)
(*            the callback process_batch, with crash and restart.          *)
(***************************************************************************)
EXTENDS Integers, Sequences, FiniteSets, TLC

\* ------------------------------------------------------------------ bounds
MaxChunks == 2        \* rows of cluster.idx
MaxTotalLines == 3    \* lines held by all fetched index ranges together
MaxBatchSize == 2     \* batch_size is drawn from 1..MaxBatchSize

MaxBatches == 2       \* messages the queue holds when the worker starts
MaxItems == 2         \* items of one message
MaxRecords == 1       \* records of one fetched archive range
MaxCrashes == 1       \* times the worker process may die

\* --------------------------------------------------------------- constants
MAX_RETRIES == 3
MIN_DOC_LENGTH == 500
MAX_DOC_LENGTH == 1000000

VARIABLES
    \* process_index
    pc,                    \* position of the producer
    site,                  \* call site of the publish_batch in progress
    nrows,                 \* len(lines): rows of the index
    chunk,                 \* rows of the index consumed so far
    lineNo,                \* lines downloaded so far (numbers the captures)
    batch_size,
    data,                  \* lines of the current range not yet looped over
    found_urls,
    err,                   \* the exception that ended the run, or "none"
    batch_counter, batcher_docs_seen, batcher_docs_filtered, batcher_docs_sent,
    \* RabbitMQChannel.basic_publish
    attempt,
    tries,                 \* self.channel.basic_publish calls of this call
    sleeps,                \* time.sleep(RETRY_DELAY) calls of this call
    reconnects,            \* self._connect() calls of this call that returned
    lastOutcome,           \* what the last self.channel.basic_publish did
    \* observation
    seen,                  \* decoded records of the non-empty lines, in order
    handed,                \* batches passed to publish_batch, in order
    \* broker
    queue,                 \* message bodies in the queue "batches"
    unacked,               \* deliveries the broker holds as unacknowledged
    deliveries,            \* deliveries made so far (numbers the delivery tags)
    \* Worker
    wpc,                   \* position of the consumer
    crashes,               \* times the worker process died
    pending,               \* deliveries received and not yet dispatched
    cur,                   \* the delivery process_batch is called with
    batch, idx,            \* "for item in batch", idx the next item
    records,               \* WARCIterator(io.BytesIO(data)): records to come
    worker_batches, docs_received, docs_processed, docs_filtered,
    bytes_downloaded,
    \* ObjectStore
    store,                 \* objects of the bucket, key -> document
    now,                   \* the clock, in milliseconds
    puts,                  \* put_object calls that returned
    \* observation of the process_batch call in progress
    attempted,             \* items whose try block was entered, in order
    fetched,               \* per attempted item, the archive records it got
    saved,                 \* documents passed to a store.save that returned
    acked,                 \* delivery tags acknowledged, in order
    offered                \* bodies the queue held at the start

prodVars == <<pc, site, nrows, chunk, lineNo, batch_size, data, found_urls, err,
              batch_counter, batcher_docs_seen, batcher_docs_filtered,
              batcher_docs_sent, attempt, tries, sleeps, reconnects,
              lastOutcome, seen, handed>>

workVars == <<unacked, deliveries, wpc, crashes, pending, cur, batch, idx, records,
              worker_batches, docs_received, docs_processed, docs_filtered,
              bytes_downloaded, store, now, puts, attempted, fetched, saved,
              acked, offered>>

vars == <<prodVars, queue, workVars>>

\* ---------------------------------------------------------------- helpers
Range(s) == {s[i] : i \in 1..Len(s)}

RECURSIVE Join(_)
\* "".join(fragments)
Join(fragments) ==
    IF fragments = <<>> THEN "" ELSE Head(fragments) \o Join(Tail(fragments))

\* ------------------------------------------------ index-metadata JSON texts
\* The JSON of a line as line.split(" ") cuts it (values[2:]).
LOC == <<"\"filename\":", "\"w.gz\",", "\"offset\":", "\"0\",", "\"length\":", "\"9\"}">>
J_ok == <<"{\"status\":", "\"200\",", "\"languages\":", "[\"eng\"],">> \o LOC
J_spaced == <<"{\"status\":", "\"2", "00\",", "\"languages\":", "[\"eng\"],">> \o LOC
J_engfra == <<"{\"status\":", "\"200\",", "\"languages\":", "[\"eng\",", "\"fra\"]}">>
J_404 == <<"{\"status\":", "\"404\",", "\"languages\":", "[\"eng\"]}">>
J_fra == <<"{\"status\":", "\"200\",", "\"languages\":", "[\"fra\"]}">>
J_nolang == <<"{\"status\":", "\"200\"}">>
J_nostatus == <<"{\"languages\":", "[\"eng\"]}">>
J_malformed == <<"{\"status\":">>

JsonTexts == {J_ok, J_spaced, J_engfra, J_404, J_fra, J_nolang, J_nostatus, J_malformed}

EmptyLine == <<>>

\* line.split(" ") of the capture numbered n whose JSON is cut into json
Line(n, json) == <<n, "20240722120756">> \o json

\* the texts json.loads accepts; on any other it raises JSONDecodeError
IsJson(text) ==
    text \in {"{\"status\":\"200\",\"languages\":[\"eng\"],\"filename\":\"w.gz\",\"offset\":\"0\",\"length\":\"9\"}",
              "{\"status\":\"200\",\"languages\":[\"eng\",\"fra\"]}",
              "{\"status\":\"404\",\"languages\":[\"eng\"]}",
              "{\"status\":\"200\",\"languages\":[\"fra\"]}",
              "{\"status\":\"200\"}",
              "{\"languages\":[\"eng\"]}"}

\* json.loads of a text it accepts
json_loads_metadata(text) ==
    CASE text = "{\"status\":\"200\",\"languages\":[\"eng\"],\"filename\":\"w.gz\",\"offset\":\"0\",\"length\":\"9\"}"
           -> [status |-> "200", languages |-> <<"eng">>,
               filename |-> "w.gz", offset |-> "0", length |-> "9"]
      [] text = "{\"status\":\"200\",\"languages\":[\"eng\",\"fra\"]}"
           -> [status |-> "200", languages |-> <<"eng", "fra">>]
      [] text = "{\"status\":\"404\",\"languages\":[\"eng\"]}"
           -> [status |-> "404", languages |-> <<"eng">>]
      [] text = "{\"status\":\"200\",\"languages\":[\"fra\"]}"
           -> [status |-> "200", languages |-> <<"fra">>]
      [] text = "{\"status\":\"200\"}"
           -> [status |-> "200"]
      [] text = "{\"languages\":[\"eng\"]}"
           -> [languages |-> <<"eng">>]

\* the condition of line 68 without its status test
FilterAnyStatus(metadata) ==
    IF "languages" \notin DOMAIN metadata THEN "reject"
    ELSE IF "eng" \notin Range(metadata.languages) THEN "reject"
    ELSE "accept"

\* the condition of batcher.py line 68, with Python's left-to-right "and"
Filter(metadata) ==
    IF "languages" \notin DOMAIN metadata THEN "reject"
    ELSE IF "eng" \notin Range(metadata.languages) THEN "reject"
    ELSE IF "status" \notin DOMAIN metadata THEN "KeyError"
    ELSE IF metadata.status = "200" THEN "accept"
    ELSE "reject"

\* ------------------------------------------------------------ wire format
\* the keys of a metadata object in the order the index writes them
MetaKeys == <<"status", "languages", "filename", "offset", "length">>

RECURSIVE DumpPairs(_, _)
\* the members of a JSON object, key then value
DumpPairs(m, keys) ==
    IF keys = <<>> THEN <<>>
    ELSE (IF Head(keys) \in DOMAIN m THEN <<Head(keys), m[Head(keys)]>> ELSE <<>>)
         \o DumpPairs(m, Tail(keys))

RECURSIVE DumpItems(_)
DumpItems(items) ==
    IF items = <<>> THEN <<>>
    ELSE <<"{", "surt_url", Head(items).surt_url, "timestamp", Head(items).timestamp,
           "metadata", "{">> \o DumpPairs(Head(items).metadata, MetaKeys)
         \o <<"}", "}">> \o DumpItems(Tail(items))

\* json.dumps(batch): the array as a sequence of tokens
json_dumps(items) == <<"[">> \o DumpItems(items) \o <<"]">>

RECURSIVE ObjectEnd(_, _)
\* the closing brace of the object whose members start at p
ObjectEnd(tokens, p) ==
    IF tokens[p] = "}" THEN p ELSE ObjectEnd(tokens, p + 2)

\* the object whose members are tokens p .. e - 1
LoadObject(tokens, p, e) ==
    LET at == {q \in p..(e - 1) : (q - p) % 2 = 0} IN
    [k \in {tokens[q] : q \in at} |-> tokens[(CHOOSE q \in at : tokens[q] = k) + 1]]

RECURSIVE LoadItemsShifted(_)
\* the items with the timestamp read one token early
LoadItemsShifted(tokens) ==
    IF tokens = <<>> THEN <<>>
    ELSE LET e == ObjectEnd(tokens, 8) IN
         <<[surt_url |-> tokens[3], timestamp |-> tokens[4],
            metadata |-> LoadObject(tokens, 8, e)]>>
         \o LoadItemsShifted(SubSeq(tokens, e + 2, Len(tokens)))

RECURSIVE LoadItems(_)
LoadItems(tokens) ==
    IF tokens = <<>> THEN <<>>
    ELSE LET e == ObjectEnd(tokens, 8) IN
         <<[surt_url |-> tokens[3], timestamp |-> tokens[5],
            metadata |-> LoadObject(tokens, 8, e)]>>
         \o LoadItems(SubSeq(tokens, e + 2, Len(tokens)))

\* json.loads(body)
json_loads(body) == LoadItems(SubSeq(body, 2, Len(body) - 1))

\* ------------------------------------------------- RabbitMQChannel errors
AuthErrors == {"AuthenticationError", "ProbableAuthenticationError", "ProbableAccessDeniedError"}
TransportErrors == {"StreamLostError", "NackError"}
OtherErrors == {"ValueError"}
PublishOutcomes == {"ok"} \cup AuthErrors \cup TransportErrors \cup OtherErrors

\* the except clauses of basic_publish treat every error as recoverable
HandlerRetryAll(e) == "retry"

\* the except clauses of basic_publish, first match wins
Handler(e) == IF e \in AuthErrors THEN "raise" ELSE "retry"

\* an exception of basic_publish caught by the caller: the run goes on
PublishRaisedSwallowed(s) == IF s = "batch" THEN "loop" ELSE "done"

\* where an exception leaving basic_publish takes process_index: neither
\* publish_batch nor process_index has a handler, whatever the call site
PublishRaised(s) == "failed"

\* where control goes after the try statement: line 72 is inside the loop
AfterTry(a) == "exhausted"

\* ------------------------------------------------------------------- Init
NoDelivery == [tag |-> 0, body |-> <<>>]

\* the consumer before Worker.run, the bucket empty
WorkerDown ==
    /\ unacked = <<>> /\ deliveries = 0
    /\ wpc = "down" /\ crashes = 0
    /\ pending = <<>> /\ cur = NoDelivery
    /\ batch = <<>> /\ idx = 0 /\ records = <<>>
    /\ worker_batches = 0 /\ docs_received = 0 /\ docs_processed = 0
    /\ docs_filtered = 0 /\ bytes_downloaded = 0
    /\ store = <<>> /\ now = 0 /\ puts = 0
    /\ attempted = <<>> /\ fetched = <<>> /\ saved = <<>>
    /\ acked = <<>>

Init ==
    /\ WorkerDown /\ offered = {}
    /\ pc = "loop" /\ site = "none"
    /\ nrows \in 0..MaxChunks
    /\ batch_size \in 1..MaxBatchSize
    /\ chunk = 0 /\ lineNo = 0
    /\ data = <<>> /\ found_urls = <<>> /\ err = "none"
    /\ batch_counter = 0 /\ batcher_docs_seen = 0
    /\ batcher_docs_filtered = 0 /\ batcher_docs_sent = 0
    /\ attempt = 0 /\ tries = 0 /\ sleeps = 0 /\ reconnects = 0
    /\ lastOutcome = "none"
    /\ seen = <<>> /\ handed = <<>>
    /\ queue = <<>>

\* ------------------------------------------------------------ process_index
pubVars == <<attempt, tries, sleeps, reconnects, lastOutcome>>

\* basic_publish entered with its counter at one
EnterPublishFromOne(from, found) ==
    /\ pc' = "pub" /\ site' = from
    /\ attempt' = 1 /\ tries' = 0 /\ sleeps' = 0 /\ reconnects' = 0
    /\ lastOutcome' = "none"
    /\ handed' = Append(handed, found)

\* entry of publish_batch(channel, found) -> channel.basic_publish(...)
EnterPublish(from, found) ==
    /\ pc' = "pub" /\ site' = from
    /\ attempt' = 0 /\ tries' = 0 /\ sleeps' = 0 /\ reconnects' = 0
    /\ lastOutcome' = "none"
    /\ handed' = Append(handed, found)

\* for cdx_chunk in lines: data = downloader.download_and_unzip(...)
Download ==
    /\ pc = "loop" /\ data = <<>> /\ chunk < nrows
    /\ chunk' = chunk + 1
    /\ \/ \E n \in 0..(MaxTotalLines - lineNo) :
            \E js \in [1..n -> JsonTexts \cup {EmptyLine}] :
              /\ data' = [i \in 1..n |->
                            IF js[i] = EmptyLine THEN EmptyLine
                            ELSE Line(lineNo + i, js[i])]
              /\ lineNo' = lineNo + n
              /\ UNCHANGED <<pc, err>>
       \/ /\ pc' = "failed" /\ err' = "HTTPError"
          /\ UNCHANGED <<data, lineNo>>
    /\ UNCHANGED <<site, nrows, batch_size, found_urls, batch_counter,
                   batcher_docs_seen, batcher_docs_filtered, batcher_docs_sent,
                   pubVars, seen, handed, queue>>
    /\ UNCHANGED workVars

\* one pass of "for line in data.split("\n")"
NextLine ==
    /\ pc = "loop" /\ data # <<>>
    /\ data' = Tail(data)
    /\ LET line == Head(data)
           values == line
           text == Join(SubSeq(values, 3, Len(values)))
           metadata == json_loads_metadata(text)
           record == [surt_url |-> values[1], timestamp |-> values[2],
                      metadata |-> metadata]
           found == IF Filter(metadata) = "accept"
                    THEN Append(found_urls, record) ELSE found_urls
       IN
       IF line = EmptyLine THEN
           UNCHANGED <<pc, site, found_urls, err, batch_counter, batcher_docs_seen,
                       batcher_docs_filtered, batcher_docs_sent, pubVars, seen, handed>>
       ELSE
           /\ batcher_docs_seen' = batcher_docs_seen + 1
           /\ IF ~IsJson(text) THEN
                  /\ pc' = "failed" /\ err' = "JSONDecodeError"
                  /\ UNCHANGED <<site, found_urls, batcher_docs_filtered, pubVars,
                                 seen, handed>>
              ELSE IF Filter(metadata) = "KeyError" THEN
                  /\ pc' = "failed" /\ err' = "KeyError"
                  /\ seen' = Append(seen, record)
                  /\ UNCHANGED <<site, found_urls, batcher_docs_filtered, pubVars,
                                 handed>>
              ELSE
                  /\ seen' = Append(seen, record)
                  /\ batcher_docs_filtered' =
                         batcher_docs_filtered + (IF Filter(metadata) = "accept" THEN 1 ELSE 0)
                  /\ found_urls' = found
                  /\ IF Len(found) >= batch_size
                     THEN EnterPublish("batch", found)
                     ELSE UNCHANGED <<pc, site, pubVars, handed>>
                  /\ err' = err
           /\ UNCHANGED <<batch_counter, batcher_docs_sent>>
    /\ UNCHANGED <<nrows, chunk, lineNo, batch_size, queue>>
    /\ UNCHANGED workVars

\* the index is exhausted: "if found_urls:" of line 79
EndOfIndex ==
    /\ pc = "loop" /\ data = <<>> /\ chunk = nrows
    /\ IF found_urls # <<>>
       THEN EnterPublish("flush1", found_urls)
       ELSE \* line 83: len(found_urls) > 0 is false as well
            pc' = "done" /\ UNCHANGED <<site, pubVars, handed>>
    /\ UNCHANGED <<nrows, chunk, lineNo, batch_size, data, found_urls, err,
                   batch_counter, batcher_docs_seen, batcher_docs_filtered,
                   batcher_docs_sent, seen, queue>>
    /\ UNCHANGED workVars

\* ------------------------------------------- RabbitMQChannel.basic_publish
\* the try body: self.channel.basic_publish(...) and what follows its return
\* or its exception up to the except clause chosen
PublishAttempt ==
    /\ pc = "pub" /\ attempt < MAX_RETRIES
    /\ \E outcome \in PublishOutcomes :
         IF outcome = "ok" THEN
             \* return; publish_batch: batch_counter.inc(); then the caller
             /\ queue' = Append(queue, json_dumps(found_urls))
             /\ batch_counter' = batch_counter + 1
             /\ batcher_docs_sent' = batcher_docs_sent + Len(found_urls)
             /\ err' = err
             /\ CASE site = "batch" ->
                       /\ found_urls' = <<>> /\ pc' = "loop"
                       /\ tries' = tries + 1 /\ lastOutcome' = outcome
                       /\ UNCHANGED <<site, attempt, sleeps, reconnects, handed>>
                  [] site = "flush1" ->
                       \* line 83: lines 79-81 did not empty found_urls
                       /\ found_urls' = found_urls
                       /\ IF Len(found_urls) > 0
                          THEN EnterPublish("flush2", found_urls)
                          ELSE /\ pc' = "done"
                               /\ tries' = tries + 1 /\ lastOutcome' = outcome
                               /\ UNCHANGED <<site, attempt, sleeps, reconnects, handed>>
                  [] site = "flush2" ->
                       /\ found_urls' = found_urls /\ pc' = "done"
                       /\ tries' = tries + 1 /\ lastOutcome' = outcome
                       /\ UNCHANGED <<site, attempt, sleeps, reconnects, handed>>
         ELSE IF Handler(outcome) = "raise" THEN
             /\ pc' = PublishRaised(site) /\ err' = outcome
             /\ tries' = tries + 1 /\ lastOutcome' = outcome
             /\ UNCHANGED <<site, found_urls, queue, batch_counter,
                            batcher_docs_sent, attempt, sleeps, reconnects, handed>>
         ELSE
             /\ attempt' = attempt + 1
             /\ pc' = "recover"
             /\ tries' = tries + 1 /\ lastOutcome' = outcome
             /\ UNCHANGED <<site, found_urls, queue, batch_counter, err,
                            batcher_docs_sent, sleeps, reconnects, handed>>
    /\ UNCHANGED <<nrows, chunk, lineNo, batch_size, data, batcher_docs_seen,
                   batcher_docs_filtered, seen>>
    /\ UNCHANGED workVars

\* the rest of a recoverable except clause: time.sleep(RETRY_DELAY);
\* self._connect(); then the statement after the try
Recover ==
    /\ pc = "recover"
    /\ sleeps' = sleeps + 1
    /\ \/ /\ reconnects' = reconnects + 1
          /\ IF AfterTry(attempt) = "pub"
             THEN pc' = "pub" /\ err' = err
             ELSE pc' = PublishRaised(site) /\ err' = "RuntimeError"
       \/ \* rabbitmq_channel() raises inside the handler
          /\ pc' = PublishRaised(site) /\ err' = "AMQPConnectionError"
          /\ UNCHANGED reconnects
    /\ UNCHANGED <<site, nrows, chunk, lineNo, batch_size, data, found_urls,
                   batch_counter, batcher_docs_seen, batcher_docs_filtered,
                   batcher_docs_sent, attempt, tries, lastOutcome, seen, handed, queue>>
    /\ UNCHANGED workVars

Next == Download \/ NextLine \/ EndOfIndex \/ PublishAttempt \/ Recover

Spec == Init /\ [][Next]_vars

\* ================================================================ consumer
\* the metadata of the records the batcher accepts
M_located == json_loads_metadata(Join(J_ok))
M_unlocated == json_loads_metadata(Join(J_engfra))

None == -1

\* one record of a fetched archive range: its type, the text trafilatura
\* extracts from it (by its length, None for no text), and the call that
\* raises while the record is handled
WarcRecord(t, x, f) == [rec_type |-> t, text |-> x, fault |-> f]

RecordChoices ==
    {WarcRecord("warcinfo", None, "none")}
    \cup {WarcRecord("response", x, "none") :
             x \in {None, 0, MIN_DOC_LENGTH - 1, MIN_DOC_LENGTH,
                    MAX_DOC_LENGTH, MAX_DOC_LENGTH + 1}}
    \cup {WarcRecord("response", None, "WARCIterator"),
          WarcRecord("response", None, "extract"),
          WarcRecord("response", MIN_DOC_LENGTH, "encode"),
          WarcRecord("response", MIN_DOC_LENGTH, "put_object")}

Archives == UNION {[1..n -> RecordChoices] : n \in 0..MaxRecords}

\* the band with its ends left out
_is_valid_doc_strict(text) ==
    IF text = None THEN FALSE
    ELSE MIN_DOC_LENGTH < text /\ text < MAX_DOC_LENGTH

\* the band without its lower end
_is_valid_doc_no_min(text) ==
    IF text = None THEN FALSE
    ELSE text <= MAX_DOC_LENGTH

\* Worker._is_valid_doc
_is_valid_doc(text) ==
    IF text = None THEN FALSE
    ELSE MIN_DOC_LENGTH <= text /\ text <= MAX_DOC_LENGTH

\* self.tokenizer.encode(_text), by the number of tokens
encode(text) == (text + 3) \div 4

\* now.date().isoformat() of the clock
today(ms) == ms \div 86400000

\* the key of ObjectStore.save at clock ms
Key(ms) == <<today(ms), ms>>

\* put_object: the object at key is created or replaced
put_object(objects, key, body) ==
    [k \in DOMAIN objects \cup {key} |-> IF k = key THEN body ELSE objects[k]]

\* the loop "for item in batch" abandoned by an exception
NextAfterErrorAbort(i, items) == Len(items) + 1

\* the item after one whose try block raised: the except is inside the loop
NextAfterError(i, items) == i + 1

\* the exception leaves process_batch and start_consuming
AfterExceptPropagates == "stopped"

\* "except Exception" inside the loop: control stays in "for item in batch"
AfterExcept == "item"

\* the loop left after its first item
LoopDoneEarly(i, items) == i > 1

\* "for item in batch" is exhausted
LoopDone(i, items) == i > Len(items)

\* no basic_qos: the broker pushes whatever the queue holds
WindowOpenNoQos(n) == TRUE

\* basic_qos(prefetch_count=1): the broker delivers while fewer than one
\* delivery is unacknowledged
WindowOpen(n) == n < 1

auto_ack_on == TRUE

\* basic_consume(queue, on_message_callback): auto_ack defaults to False
auto_ack == FALSE

\* the messages a run of the batcher may leave in the queue: items numbered
\* across the messages from first on
RECURSIVE Messages(_, _)
Messages(first, n) ==
    IF n = 0 THEN {<<>>}
    ELSE UNION {
           { <<json_dumps([i \in 1..k |->
                   [surt_url |-> first + i - 1, timestamp |-> "20240722120756",
                    metadata |-> ms[i]]])>> \o rest :
               ms \in [1..k -> {M_located, M_unlocated}],
               rest \in Messages(first + k, n - 1) } :
           k \in 1..MaxItems }

WorkerInit ==
    /\ WorkerDown
    /\ \E n \in 0..MaxBatches : queue \in Messages(1, n)
    /\ offered = Range(queue)
    /\ pc = "off" /\ site = "none" /\ nrows = 0 /\ batch_size = 1
    /\ chunk = 0 /\ lineNo = 0
    /\ data = <<>> /\ found_urls = <<>> /\ err = "none"
    /\ batch_counter = 0 /\ batcher_docs_seen = 0
    /\ batcher_docs_filtered = 0 /\ batcher_docs_sent = 0
    /\ attempt = 0 /\ tries = 0 /\ sleeps = 0 /\ reconnects = 0
    /\ lastOutcome = "none"
    /\ seen = <<>> /\ handed = <<>>

storeVars == <<store, now, puts>>
counterVars == <<worker_batches, docs_received, docs_processed, docs_filtered,
                 bytes_downloaded>>

\* Worker.run: channel, basic_qos, basic_consume, start_consuming
Run ==
    /\ wpc = "down"
    /\ wpc' = "consuming"
    /\ UNCHANGED <<prodVars, queue, unacked, deliveries, crashes, pending, cur,
                   batch, idx, records, counterVars, storeVars, attempted,
                   fetched, saved, acked, offered>>

\* the broker sends the head of the queue to the subscribed consumer
Deliver ==
    /\ wpc # "down" /\ queue # <<>>
    /\ WindowOpen(Len(unacked))
    /\ deliveries' = deliveries + 1
    /\ queue' = Tail(queue)
    /\ LET d == [tag |-> deliveries + 1, body |-> Head(queue)] IN
         /\ unacked' = IF auto_ack THEN unacked ELSE Append(unacked, d)
         /\ pending' = Append(pending, d)
    /\ UNCHANGED <<prodVars, wpc, crashes, cur, batch, idx, records, counterVars,
                   storeVars, attempted, fetched, saved, acked, offered>>

\* start_consuming calls process_batch: lines 37-40
Dispatch ==
    /\ wpc = "consuming" /\ pending # <<>>
    /\ cur' = Head(pending) /\ pending' = Tail(pending)
    /\ batch' = json_loads(Head(pending).body)
    /\ docs_received' = docs_received + Len(json_loads(Head(pending).body))
    /\ idx' = 1 /\ records' = <<>>
    /\ attempted' = <<>> /\ fetched' = <<>> /\ saved' = <<>>
    /\ wpc' = "item"
    /\ UNCHANGED <<prodVars, queue, unacked, deliveries, crashes, worker_batches,
                   docs_processed, docs_filtered, bytes_downloaded, storeVars,
                   acked, offered>>

\* the try block of one item up to the WARCIterator: lines 44-49
BeginItem ==
    /\ wpc = "item" /\ ~LoopDone(idx, batch)
    /\ attempted' = Append(attempted, idx)
    /\ LET item == batch[idx] IN
       \/ \* item["metadata"]["filename"] ... raises KeyError
          /\ ~({"filename", "offset", "length"} \subseteq DOMAIN item.metadata)
          /\ idx' = NextAfterError(idx, batch)
          /\ fetched' = Append(fetched, <<>>)
          /\ wpc' = AfterExcept
          /\ UNCHANGED <<records, bytes_downloaded>>
       \/ \* download_and_unzip raises
          /\ {"filename", "offset", "length"} \subseteq DOMAIN item.metadata
          /\ idx' = NextAfterError(idx, batch)
          /\ fetched' = Append(fetched, <<>>)
          /\ wpc' = AfterExcept
          /\ UNCHANGED <<records, bytes_downloaded>>
       \/ /\ {"filename", "offset", "length"} \subseteq DOMAIN item.metadata
          /\ \E archive \in Archives :
               /\ fetched' = Append(fetched, archive)
               \* len(data), in records
               /\ bytes_downloaded' = bytes_downloaded + Len(archive)
               /\ IF archive = <<>>
                  THEN idx' = idx + 1 /\ UNCHANGED <<wpc, records>>
                  ELSE wpc' = "records" /\ records' = archive /\ idx' = idx
    /\ UNCHANGED <<prodVars, queue, unacked, deliveries, crashes, pending, cur,
                   batch, worker_batches, docs_received, docs_processed,
                   docs_filtered, storeVars, saved, acked, offered>>

\* one pass of "for record in WARCIterator(...)": lines 51-68, and line 69
\* when it raises
NextRecord ==
    /\ wpc = "records"
    /\ LET record == Head(records)
           item == batch[idx]
           _text == record.text
           tokens == encode(_text)
           doc == [url |-> item.surt_url, timestamp |-> item.timestamp,
                   content |-> _text, tokens |-> tokens, metadata |-> item.metadata]
           raises ==
               \/ record.fault = "WARCIterator"
               \/ record.rec_type = "response" /\ record.fault = "extract"
               \/ /\ record.rec_type = "response" /\ _is_valid_doc(_text)
                  /\ record.fault \in {"encode", "put_object"}
           after == Tail(records)
       IN
       /\ IF raises THEN
              /\ idx' = NextAfterError(idx, batch)
              /\ records' = <<>> /\ wpc' = AfterExcept
          ELSE
              /\ records' = after
              /\ IF after = <<>>
                 THEN idx' = idx + 1 /\ wpc' = "item"
                 ELSE UNCHANGED <<idx, wpc>>
       /\ IF raises \/ record.rec_type # "response" THEN
              UNCHANGED <<docs_filtered, docs_processed, storeVars, saved>>
          ELSE IF ~_is_valid_doc(_text) THEN
              /\ docs_filtered' = docs_filtered + 1
              /\ UNCHANGED <<docs_processed, storeVars, saved>>
          ELSE
              \* ObjectStore.save(doc)
              /\ \E ms \in now..(now + 1) :
                   /\ now' = ms
                   /\ store' = put_object(store, Key(ms), doc)
              /\ puts' = puts + 1
              /\ saved' = Append(saved, [item |-> idx, doc |-> doc])
              /\ docs_processed' = docs_processed + 1
              /\ UNCHANGED docs_filtered
    /\ UNCHANGED <<prodVars, queue, unacked, deliveries, crashes, pending, cur,
                   batch, worker_batches, docs_received, bytes_downloaded,
                   attempted, fetched, acked, offered>>

\* after the loop: batch_counter.inc(); ch.basic_ack(delivery_tag)
FinishBatch ==
    /\ wpc = "item" /\ LoopDone(idx, batch)
    /\ worker_batches' = worker_batches + 1
    /\ unacked' = SelectSeq(unacked, LAMBDA d : d.tag # cur.tag)
    /\ acked' = Append(acked, cur.tag)
    /\ wpc' = "consuming"
    \* process_batch returns: its arguments and locals are gone
    /\ cur' = NoDelivery /\ batch' = <<>> /\ idx' = 0
    /\ attempted' = <<>> /\ fetched' = <<>> /\ saved' = <<>>
    /\ UNCHANGED <<prodVars, queue, deliveries, crashes, pending, records,
                   docs_received, docs_processed, docs_filtered,
                   bytes_downloaded, storeVars, offered>>

\* the worker process dies; the broker requeues what it had not acknowledged
Crash ==
    /\ wpc # "down" /\ crashes < MaxCrashes
    /\ crashes' = crashes + 1
    /\ wpc' = "down"
    /\ queue' = [i \in 1..Len(unacked) |-> unacked[i].body] \o queue
    /\ unacked' = <<>> /\ pending' = <<>>
    /\ cur' = NoDelivery /\ batch' = <<>> /\ idx' = 0 /\ records' = <<>>
    /\ attempted' = <<>> /\ fetched' = <<>> /\ saved' = <<>>
    /\ UNCHANGED <<prodVars, deliveries, counterVars, storeVars, acked, offered>>

WorkerNext ==
    Run \/ Deliver \/ Dispatch \/ BeginItem \/ NextRecord \/ FinishBatch \/ Crash

WorkerSpec == WorkerInit /\ [][WorkerNext]_vars

\* the worker process and the broker stay up
LiveNext ==
    Run \/ Deliver \/ Dispatch \/ BeginItem \/ NextRecord \/ FinishBatch

\* run() is called, the broker delivers what the window allows, and every
\* call made by process_batch returns or raises
LiveSpec ==
    /\ WorkerInit /\ [][LiveNext]_vars
    /\ WF_vars(Run) /\ WF_vars(Deliver) /\ WF_vars(Dispatch)
    /\ WF_vars(BeginItem) /\ WF_vars(NextRecord) /\ WF_vars(FinishBatch)

\* ======================================================= producer claims
\* the batches the broker received, decoded
Published == [i \in 1..Len(queue) |-> json_loads(queue[i])]

Qualifies(m) ==
    /\ "status" \in DOMAIN m /\ m.status = "200"
    /\ "languages" \in DOMAIN m /\ "eng" \in Range(m.languages)

Completed == pc = "done"

\* C1: in a completed run every published batch but the last has exactly
\* batch_size records, the last has between 1 and batch_size, and no batch is
\* published iff no record passed the filter.
C1_BatchSizes ==
    Completed =>
      /\ \A i \in 1..(Len(Published) - 1) : Len(Published[i]) = batch_size
      /\ Len(Published) > 0 => Len(Published[Len(Published)]) \in 1..batch_size
      /\ (Len(Published) = 0) <=> (\A i \in 1..Len(seen) : ~Qualifies(seen[i].metadata))

\* C2: no accepted record is handed to the queue channel in two publish
\* calls, so the trailing partial batch is flushed once.
C2_HandedOnce ==
    \A i, j \in 1..Len(handed) :
        i # j => Range(handed[i]) \cap Range(handed[j]) = {}

\* C3: in a completed run a decoded record is in some published batch iff
\* its status is "200" and its languages contain "eng".
C3_FilterCorrect ==
    Completed =>
      /\ \A i \in 1..Len(seen) :
            (\E k \in 1..Len(Published) : seen[i] \in Range(Published[k]))
              <=> Qualifies(seen[i].metadata)
      /\ \A k \in 1..Len(Published) : Range(Published[k]) \subseteq Range(seen)

C3_Witness ==
    /\ Completed
    /\ \E i, j, k \in 1..Len(seen) :
          /\ Qualifies(seen[i].metadata)
          /\ "status" \in DOMAIN seen[j].metadata /\ seen[j].metadata.status = "404"
          /\ "languages" \notin DOMAIN seen[k].metadata

\* C4: a call whose every attempt fails with a transport error raises the
\* exhaustion error after exactly MAX_RETRIES attempts, having slept and
\* reconnected between them.
C4_ExhaustsAfterMaxRetries ==
    (pc = "failed" /\ err = "RuntimeError") =>
        /\ tries = MAX_RETRIES
        /\ sleeps >= MAX_RETRIES - 1
        /\ reconnects >= MAX_RETRIES - 1

\* C5: after a recoverable failure with fewer than MAX_RETRIES attempts made,
\* basic_publish reconnects and tries again, so it raises the exhaustion error
\* only when no attempt is left.
C5_RetriesWhileAttemptsRemain ==
    [][(pc = "recover" /\ attempt < MAX_RETRIES) =>
          (pc' = "pub" \/ err' = "AMQPConnectionError")]_vars

\* C6: an authentication-class error ends basic_publish at once: the error
\* is raised as it is, and no sleep, reconnect or attempt follows it.
C6_AuthFailsFast ==
    lastOutcome \in AuthErrors =>
        /\ pc = "failed" /\ err = lastOutcome
        /\ sleeps = attempt /\ reconnects = attempt
        /\ tries = attempt + 1

C6_Witness ==
    /\ lastOutcome \in AuthErrors /\ pc = "failed"
    /\ tries = 1 /\ sleeps = 0 /\ reconnects = 0

\* ======================================================= consumer claims
InCallback == wpc \in {"item", "records"}

AllItems == [i \in 1..Len(batch) |-> i]

\* the document the worker builds for an item and a text
DocOf(item, text) ==
    [url |-> item.surt_url, timestamp |-> item.timestamp, content |-> text,
     tokens |-> encode(text), metadata |-> item.metadata]

InBand(text) == text # None /\ 500 <= text /\ text <= 1000000

Raises(r) ==
    \/ r.fault \in {"WARCIterator", "extract"}
    \/ r.rec_type = "response" /\ InBand(r.text) /\ r.fault # "none"

\* what an item owes the store: the in-band responses of its archive that
\* come before the first record whose handling raises
RECURSIVE Owed(_, _)
Owed(i, archive) ==
    IF archive = <<>> \/ Raises(Head(archive)) THEN <<>>
    ELSE IF Head(archive).rec_type = "response" /\ InBand(Head(archive).text)
         THEN <<[item |-> i, doc |-> DocOf(batch[i], Head(archive).text)]>>
              \o Owed(i, Tail(archive))
         ELSE Owed(i, Tail(archive))

SavedOf(i) == SelectSeq(saved, LAMBDA s : s.item = i)

ItemRaised(i) ==
    \/ fetched[i] = <<>> /\ i \in 1..Len(fetched)
    \/ \E k \in 1..Len(fetched[i]) : Raises(fetched[i][k])

\* C7: an exception in one item skips that item only: when the loop ends
\* every item of the batch was attempted, in order, and every finished item
\* has had each of its valid documents saved, whichever items raised.
C7_FaultIsolation ==
    /\ (wpc = "item" /\ idx > Len(batch)) => attempted = AllItems
    /\ \A i \in 1..Len(fetched) : i < idx => SavedOf(i) = Owed(i, fetched[i])

C7_Witness ==
    /\ wpc = "item" /\ idx > Len(batch) /\ Len(batch) >= 2
    /\ ItemRaised(1)
    /\ SavedOf(2) # <<>>

\* C8: process_batch acknowledges its delivery exactly once, after every
\* item was attempted: the only acknowledgment is that of the current
\* delivery, not acknowledged before, with all items attempted, and the
\* callback never returns without it.
C8_AckOnceAfterAll ==
    [][/\ acked' # acked =>
            /\ acked' = Append(acked, cur.tag)
            /\ cur.tag \notin Range(acked)
            /\ wpc = "item" /\ attempted = AllItems
       /\ (InCallback /\ wpc' = "consuming") => acked' = Append(acked, cur.tag)
      ]_vars

C8_Witness ==
    /\ Len(acked) = 2 /\ wpc = "consuming"
    /\ docs_received = 2 * MaxItems
    /\ docs_processed + docs_filtered < docs_received

\* C9: with prefetch 1 at most one delivery is unacknowledged at a time, and
\* while process_batch handles a delivery no other one has been delivered.
C9_OneInFlight ==
    /\ Len(unacked) <= 1
    /\ InCallback => (unacked = <<cur>> /\ pending = <<>>)

\* a second message waits in the queue while the first is being processed
C9_Witness ==
    /\ InCallback /\ idx = Len(batch) /\ attempted # <<>>
    /\ queue # <<>> /\ Len(unacked) = 1

Held(m) ==
    \/ m \in Range(queue)
    \/ \E i \in 1..Len(unacked) : unacked[i].body = m

\* C10: a message leaves the queue only by its acknowledgment; when the
\* worker dies, the unacknowledged delivery is back in the queue whole, and
\* every delivery, a redelivery included, is processed from its first item.
C10_AtLeastOnce ==
    [][/\ \A m \in offered :
            (Held(m) /\ ~Held(m)') => (m = cur.body /\ acked' = Append(acked, cur.tag))
       /\ (InCallback /\ wpc' = "down") =>
            (queue' = <<cur.body>> \o queue /\ unacked' = <<>>)
       /\ (wpc = "consuming" /\ wpc' = "item") =>
            /\ batch' = json_loads(cur'.body)
            /\ idx' = 1 /\ attempted' = <<>> /\ saved' = <<>>
      ]_vars

\* a redelivered batch was processed to the end and a document of it that
\* the first pass had saved is in the store twice
C10_Witness ==
    /\ crashes = 1 /\ wpc = "item" /\ idx > Len(batch)
    /\ \E k1, k2 \in DOMAIN store :
          /\ k1 # k2 /\ store[k1] = store[k2]
          /\ \E i \in 1..Len(saved) : saved[i].doc = store[k2]
    /\ puts = 2

\* C11: every save creates one new object and overwrites none: the bucket
\* holds as many objects as put_object calls have returned.
C11_OneObjectPerSave == Cardinality(DOMAIN store) = puts

\* C12: for a response record whose handling does not raise, the worker
\* saves a document iff the text is not None and 500 <= len(text) <= 1000000;
\* any other text is counted as filtered, with no save and no error.
C12_LengthBand ==
    [][(/\ wpc = "records" /\ wpc' # "down"
        /\ Head(records).rec_type = "response"
        /\ Head(records).fault = "none") =>
          LET x == Head(records).text IN
          IF x # None /\ 500 <= x /\ x <= 1000000
          THEN /\ puts' = puts + 1
               /\ saved' = Append(saved, [item |-> idx, doc |-> DocOf(batch[idx], x)])
               /\ docs_processed' = docs_processed + 1
               /\ docs_filtered' = docs_filtered
          ELSE /\ docs_filtered' = docs_filtered + 1
               /\ puts' = puts /\ store' = store /\ saved' = saved
               /\ docs_processed' = docs_processed
               /\ records' = Tail(records)
               /\ idx' = IF Tail(records) = <<>> THEN idx + 1 ELSE idx
      ]_vars

\* one batch held a response of 1000000 characters, saved, and one of
\* 1000001, filtered
C12_Witness ==
    /\ wpc = "item" /\ idx > Len(batch)
    /\ \E i, j \in 1..Len(fetched) :
          /\ fetched[i] # <<>> /\ fetched[i][1] = WarcRecord("response", 1000000, "none")
          /\ SavedOf(i) # <<>>
          /\ fetched[j] # <<>> /\ fetched[j][1] = WarcRecord("response", 1000001, "none")
          /\ SavedOf(j) = <<>>
    /\ docs_filtered >= 1

\* C19: no stored document has an empty token sequence: a document reaches
\* the store only with a text inside the length band, which the tokenizer
\* turns into at least one token.
C19_TokensNonEmpty ==
    /\ \A k \in DOMAIN store : store[k].tokens >= 1
    /\ \A i \in 1..Len(saved) : saved[i].doc.tokens >= 1

C19_Witness ==
    \E k \in DOMAIN store : store[k].content = 500 /\ store[k].tokens = 125

PublishErrors == AuthErrors \cup {"RuntimeError", "AMQPConnectionError"}

\* C13: an error raised by basic_publish ends the run: process_index is left
\* with that error, the batch it failed to publish still in found_urls, and
\* nothing is handed to the channel or published afterwards.
C13_PublishErrorAborts ==
    [][err' \in PublishErrors =>
          /\ pc' = "failed"
          /\ found_urls' = handed'[Len(handed')]
          /\ err \in PublishErrors => (queue' = queue /\ handed' = handed)
      ]_vars

\* a batch was published, then the publish of a later one was given up
C13_Witness ==
    /\ pc = "failed" /\ err = "RuntimeError"
    /\ site = "batch" /\ queue # <<>> /\ Len(handed) = Len(queue) + 1

\* C16: a line whose metadata is not JSON is skipped: the batcher goes on
\* with the lines after it and the run does not end there.
C16_MalformedLineSkipped ==
    [][(/\ pc = "loop" /\ data # <<>> /\ Head(data) # EmptyLine
        /\ ~IsJson(Join(SubSeq(Head(data), 3, Len(Head(data)))))) =>
          (pc' # "failed" /\ data' = Tail(data) /\ found_urls' = found_urls)
      ]_vars

\* C17: the retry counter is zero when a publish call starts, whatever the
\* calls before it did, counts no more than the attempts made, and neither it
\* nor the attempts of one call exceed MAX_RETRIES.
C17_RetryCounter ==
    /\ (pc = "pub" /\ tries = 0) => attempt = 0
    /\ attempt <= tries
    /\ attempt <= MAX_RETRIES /\ tries <= MAX_RETRIES

\* a second publish call starts, after a first one that succeeded
C17_Witness ==
    /\ pc = "pub" /\ tries = 0 /\ attempt = 0
    /\ batch_counter >= 1 /\ Len(handed) >= 2

\* C18: documents sent <= documents filtered in <= documents seen in every
\* state, and sent equals filtered in when process_index completes.
C18_Counters ==
    /\ batcher_docs_sent <= batcher_docs_filtered
    /\ batcher_docs_filtered <= batcher_docs_seen
    /\ Completed => batcher_docs_sent = batcher_docs_filtered

\* C15: what the worker decodes from a message is the batch the batcher
\* encoded for it: the same items in the same order, each with the same
\* surt_url, timestamp and metadata.
C15_WireRoundTrip ==
    \A i \in 1..Len(queue) :
        LET got == json_loads(queue[i]) IN
        /\ Len(got) = Len(handed[i])
        /\ \A k \in 1..Len(got) :
              /\ got[k].surt_url = handed[i][k].surt_url
              /\ got[k].timestamp = handed[i][k].timestamp
              /\ got[k].metadata = handed[i][k].metadata

\* a published message of two items whose metadata differ
C15_Witness ==
    \E i \in 1..Len(queue) :
        /\ Len(handed[i]) = 2
        /\ handed[i][1].metadata # handed[i][2].metadata
        /\ "filename" \in DOMAIN json_loads(queue[i])[1].metadata

\* C14: while the broker and the worker stay up and every fetch and save
\* call returns or raises, every batch in the queue is eventually delivered,
\* processed to the end and acknowledged, whatever items of it fail: the
\* consumer ends up idle with nothing queued and nothing unacknowledged.
C14_AllEventuallyAcked ==
    <>[](/\ queue = <<>> /\ unacked = <<>> /\ pending = <<>>
         /\ wpc = "consuming"
         /\ Len(acked) = Cardinality(offered)
         /\ worker_batches = Cardinality(offered))

\* two batches acknowledged although every item of both failed
C14_Witness ==
    /\ Len(acked) = 2 /\ wpc = "consuming" /\ queue = <<>> /\ unacked = <<>>
    /\ docs_received = 2 * MaxItems
    /\ docs_processed = 0 /\ docs_filtered = 0 /\ bytes_downloaded = 0

====
